---- MODULE Spec2Model ----
(***************************************************************************)
(* A model of the preview-sweeper sweep engine                             *)
(* (internal/controller/previewsweeper_controller.go): the scheduler loop  *)
(* NamespaceSweeper.Start, one sweep pass NamespaceSweeper.SweepOnce, the  *)
(* TTL resolver resolveTTL and the jitter function withJitter, together    *)
(* with the cluster state store the engine lists from and deletes in.      *)
(*                                                                         *)
(* Time is counted in milliseconds (a time.Duration is an integer count of *)
(* a fixed unit; the model's unit is the millisecond).  Annotation values  *)
(* are strings over an alphabet without the sub-millisecond units and      *)
(* without fractions.                                                      *)
(***************************************************************************)
EXTENDS Integers, Sequences, FiniteSets, TLC

(***************************************************************************)
(* Bounds of the model.                                                    *)
(***************************************************************************)
\* The clock advances in whole seconds, MaxTicks times at most.
MaxTicks == 2

(***************************************************************************)
(* Program constants.                                                      *)
(***************************************************************************)
Millisecond == 1
Second == 1000
Minute == 60000
Hour == 3600000

LabelPreview == "preview-sweeper.maxsauce.com/enabled"
AnnotationTTL == "preview-sweeper.maxsauce.com/ttl"
AnnotationHold == "preview-sweeper.maxsauce.com/hold"

\* Start's fixed jitter fraction of the first delay, in hundredths (0.1).
FirstJitterPercent == 10

(***************************************************************************)
(* Go maps: a map is a function on the set of its keys; reading a key that *)
(* is not there yields the zero value "".                                  *)
(***************************************************************************)
EmptyMap == [k \in {} |-> ""]

MapHas(m, k) == k \in DOMAIN m

MapGet(m, k) == IF k \in DOMAIN m THEN m[k] ELSE ""

MapRemove(m, k) == [x \in (DOMAIN m) \ {k} |-> m[x]]

(***************************************************************************)
(* Strings.                                                                *)
(***************************************************************************)
\* strings.HasPrefix
HasPrefix(s, prefix) ==
    /\ Len(s) >= Len(prefix)
    /\ SubSeq(s, 1, Len(prefix)) = prefix

IsSpace(c) == c \in {" ", "\t", "\n", "\r"}

IsDigit(c) == c \in {"0", "1", "2", "3", "4", "5", "6", "7", "8", "9"}

DigitVal(c) ==
    CASE c = "0" -> 0 [] c = "1" -> 1 [] c = "2" -> 2 [] c = "3" -> 3
      [] c = "4" -> 4 [] c = "5" -> 5 [] c = "6" -> 6 [] c = "7" -> 7
      [] c = "8" -> 8 [] c = "9" -> 9

CharAt(s, i) == SubSeq(s, i, i)

\* How many white space characters s has from position i on.
SpacesFrom[s \in STRING, i \in Nat] ==
    IF i <= Len(s) /\ IsSpace(CharAt(s, i))
    THEN 1 + SpacesFrom[s, i + 1]
    ELSE 0

\* How many white space characters s has from position i back.
SpacesBefore[s \in STRING, i \in Nat] ==
    IF i >= 1 /\ IsSpace(CharAt(s, i))
    THEN 1 + SpacesBefore[s, i - 1]
    ELSE 0

TrimLeft(s) == SubSeq(s, SpacesFrom[s, 1] + 1, Len(s))

TrimRight(s) == SubSeq(s, 1, Len(s) - SpacesBefore[s, Len(s)])

\* strings.TrimSpace
TrimSpace(s) == TrimRight(TrimLeft(s))

\* The length of the longest run of digits of s that starts at position i.
DigitRun[s \in STRING, i \in Nat] ==
    IF i <= Len(s) /\ IsDigit(CharAt(s, i))
    THEN 1 + DigitRun[s, i + 1]
    ELSE 0

\* The length of the longest run of characters other than digits and "."
\* (a unit name) of s that starts at position i.
UnitRun[s \in STRING, i \in Nat] ==
    IF i <= Len(s) /\ ~IsDigit(CharAt(s, i)) /\ CharAt(s, i) # "."
    THEN 1 + UnitRun[s, i + 1]
    ELSE 0

\* The value of the n digits of s that start at position i
\* (time.leadingInt, strconv's digit loop).
DigitsValue[s \in STRING, i \in Nat, n \in Nat] ==
    IF n = 0 THEN 0
    ELSE 10 * DigitsValue[s, i, n - 1] + DigitVal(CharAt(s, i + n - 1))

\* time.ParseDuration's unit table, in the model's unit.  The units below
\* the millisecond (ns, us) have no value in that unit: no annotation of the
\* model uses them.
UnitMap == [ms |-> Millisecond, s |-> Second, m |-> Minute, h |-> Hour]

Pow10[n \in Nat] == IF n = 0 THEN 1 ELSE 10 * Pow10[n - 1]

\* Whether s has a "." at position i.
DotAt[s \in STRING, i \in Nat] == i <= Len(s) /\ CharAt(s, i) = "."

\* The sum of the (number, unit) groups of s from position i on, or an
\* error: the loop of time.ParseDuration after the sign.  A number is
\* digits, optionally followed by "." and digits, with a digit on one side
\* at least; the fraction is exact when it is a whole number of
\* milliseconds.
ParseGroups[s \in STRING, i \in Nat] ==
    IF i > Len(s) THEN [ok |-> TRUE, d |-> 0]
    ELSE LET nd == DigitRun[s, i]
             dot == IF DotAt[s, i + nd] THEN 1 ELSE 0
             nf == IF dot = 1 THEN DigitRun[s, i + nd + 1] ELSE 0
             nu == UnitRun[s, i + nd + dot + nf]
             u == SubSeq(s, i + nd + dot + nf, i + nd + dot + nf + nu - 1)
         IN IF nd + nf = 0 \/ nu = 0 \/ u \notin DOMAIN UnitMap
            THEN [ok |-> FALSE, d |-> 0]
            ELSE LET tail == ParseGroups[s, i + nd + dot + nf + nu]
                 IN IF tail.ok
                    THEN [ok |-> TRUE,
                          d |-> DigitsValue[s, i, nd] * UnitMap[u]
                                + (DigitsValue[s, i + nd + 1, nf] * UnitMap[u])
                                    \div Pow10[nf]
                                + tail.d]
                    ELSE [ok |-> FALSE, d |-> 0]

\* time.ParseDuration: [-+]?([0-9]*(\.[0-9]*)?[a-z]+)+ or "0" with an
\* optional sign.
ParseDuration(s) ==
    LET signed == Len(s) > 0 /\ CharAt(s, 1) \in {"-", "+"}
        neg == signed /\ CharAt(s, 1) = "-"
        body == IF signed THEN SubSeq(s, 2, Len(s)) ELSE s
    IN IF body = "0" THEN [ok |-> TRUE, d |-> 0]
       ELSE IF body = "" THEN [ok |-> FALSE, d |-> 0]
       ELSE LET g == ParseGroups[body, 1]
            IN IF g.ok
               THEN [ok |-> TRUE, d |-> IF neg THEN 0 - g.d ELSE g.d]
               ELSE [ok |-> FALSE, d |-> 0]

\* strconv.Atoi: an optional sign and then digits only.
Atoi(s) ==
    LET signed == Len(s) > 0 /\ CharAt(s, 1) \in {"-", "+"}
        neg == signed /\ CharAt(s, 1) = "-"
        body == IF signed THEN SubSeq(s, 2, Len(s)) ELSE s
        n == DigitsValue[body, 1, Len(body)]
    IN IF Len(body) > 0 /\ DigitRun[body, 1] = Len(body)
       THEN [ok |-> TRUE, n |-> IF neg THEN 0 - n ELSE n]
       ELSE [ok |-> FALSE, n |-> 0]

(***************************************************************************)
(* time.Duration(n) * time.Hour.  A Duration is a signed 64-bit count of   *)
(* nanoseconds and the product wraps around modulo 2^64.  The product is   *)
(* computed here at its full width, on naturals written in limbs (digits   *)
(* in base 1000, the lowest first, no zero limb at the top), and is then   *)
(* turned into the milliseconds the durations are counted in.  A duration  *)
(* further away than FarAway is kept as FarAway: it is beyond every age a  *)
(* namespace reaches.                                                      *)
(***************************************************************************)
LimbBase == 1000

\* 2^64 and 2^63.
TwoTo64 == <<616, 551, 709, 73, 744, 446, 18>>
TwoTo63 == <<808, 775, 854, 36, 372, 223, 9>>

FarAway == 500 * Hour

RECURSIVE LimbsOf(_)
LimbsOf(x) ==
    IF x = 0 THEN <<>> ELSE <<x % LimbBase>> \o LimbsOf(x \div LimbBase)

\* a * m + carry, for a factor m that a limb can be multiplied by.
RECURSIVE LimbsTimes(_, _, _)
LimbsTimes(a, m, carry) ==
    IF a = <<>> THEN LimbsOf(carry)
    ELSE LET t == Head(a) * m + carry
         IN <<t % LimbBase>> \o LimbsTimes(Tail(a), m, t \div LimbBase)

\* a < b, comparing from limb i downwards when the lengths are equal.
RECURSIVE LimbsLessFrom(_, _, _)
LimbsLessFrom(a, b, i) ==
    IF i = 0 THEN FALSE
    ELSE IF a[i] # b[i] THEN a[i] < b[i]
    ELSE LimbsLessFrom(a, b, i - 1)

LimbsLess(a, b) ==
    IF Len(a) # Len(b) THEN Len(a) < Len(b) ELSE LimbsLessFrom(a, b, Len(a))

\* The limbs without the zero limbs at the top.
RECURSIVE LimbsNormal(_)
LimbsNormal(a) ==
    IF a # <<>> /\ a[Len(a)] = 0 THEN LimbsNormal(SubSeq(a, 1, Len(a) - 1)) ELSE a

\* a - b for a >= b, from limb i upwards.
RECURSIVE LimbsMinusFrom(_, _, _, _)
LimbsMinusFrom(a, b, i, borrow) ==
    IF i > Len(a) THEN <<>>
    ELSE LET t == a[i] - (IF i <= Len(b) THEN b[i] ELSE 0) - borrow
         IN <<IF t < 0 THEN t + LimbBase ELSE t>>
              \o LimbsMinusFrom(a, b, i + 1, IF t < 0 THEN 1 ELSE 0)

LimbsMinus(a, b) == LimbsNormal(LimbsMinusFrom(a, b, 1, 0))

\* A natural reduced modulo 2^64: what 64 bits keep of it.
RECURSIVE ModTwoTo64(_)
ModTwoTo64(a) ==
    IF LimbsLess(a, TwoTo64) THEN a ELSE ModTwoTo64(LimbsMinus(a, TwoTo64))

\* A count of nanoseconds in milliseconds (the two lowest limbs dropped),
\* at most FarAway.
Millis(a) ==
    LET m == SubSeq(a, 3, Len(a))
        limb(i) == IF i <= Len(m) THEN m[i] ELSE 0
    IN IF Len(m) > 4 \/ limb(4) > 1 THEN FarAway
       ELSE LET v == limb(1) + LimbBase * (limb(2) + LimbBase * (limb(3) + LimbBase * limb(4)))
            IN IF v > FarAway THEN FarAway ELSE v

\* n hours in nanoseconds, as 64 bits hold the product: n * 3600 seconds of
\* 10^9 nanoseconds, modulo 2^64; for n < 0 the two's complement.
HourBits(n) ==
    LET seconds == LimbsTimes(LimbsOf(IF n < 0 THEN 0 - n ELSE n), Hour \div Second, 0)
        nanos == ModTwoTo64(IF seconds = <<>> THEN <<>> ELSE <<0, 0, 0>> \o seconds)
    IN IF n < 0 /\ nanos # <<>> THEN LimbsMinus(TwoTo64, nanos) ELSE nanos

\* HoursToDuration stopping at the largest and the smallest Duration in
\* place of wrapping around.
HoursToDuration_Saturating(n) ==
    LET seconds == LimbsTimes(LimbsOf(IF n < 0 THEN 0 - n ELSE n), Hour \div Second, 0)
        nanos == IF seconds = <<>> THEN <<>> ELSE <<0, 0, 0>> \o seconds
        most == IF LimbsLess(nanos, TwoTo63) THEN Millis(nanos) ELSE FarAway
    IN IF n < 0 THEN 0 - most ELSE most

\* Line 244: time.Duration(n) * time.Hour, the 64 bits read as a signed
\* count.
HoursToDuration(n) ==
    LET bits == HourBits(n)
    IN IF LimbsLess(bits, TwoTo63)
       THEN Millis(bits)
       ELSE 0 - Millis(LimbsMinus(TwoTo64, bits))

(***************************************************************************)
(* resolveTTL(annotations, defaultTTL): the effective TTL and its source.  *)
(***************************************************************************)
\* resolveTTL without strings.TrimSpace.
resolveTTL_NoTrim(annotations, defaultTTL) ==
    LET fallback == [ttl |-> defaultTTL, src |-> "default"]
        resolve[val \in STRING] ==
            IF val # ""
            THEN IF ParseDuration(val).ok
                 THEN [ttl |-> ParseDuration(val).d, src |-> "annotation"]
                 ELSE IF Atoi(val).ok
                      THEN [ttl |-> HoursToDuration(Atoi(val).n), src |-> "annotation"]
                      ELSE fallback
            ELSE fallback
    IN IF MapHas(annotations, AnnotationTTL)
       THEN resolve[annotations[AnnotationTTL]]
       ELSE fallback

\* resolveTTL accepting the integer form for n >= 0 only.
resolveTTL_NonNegativeOnly(annotations, defaultTTL) ==
    LET fallback == [ttl |-> defaultTTL, src |-> "default"]
        resolve[val \in STRING] ==
            IF val # ""
            THEN IF ParseDuration(val).ok
                 THEN [ttl |-> ParseDuration(val).d, src |-> "annotation"]
                 ELSE IF Atoi(val).ok /\ Atoi(val).n >= 0
                      THEN [ttl |-> HoursToDuration(Atoi(val).n), src |-> "annotation"]
                      ELSE fallback
            ELSE fallback
    IN IF MapHas(annotations, AnnotationTTL)
       THEN resolve[TrimSpace(annotations[AnnotationTTL])]
       ELSE fallback

\* resolveTTL taking a value that does not parse as a TTL of zero.
resolveTTL_ZeroOnGarbage(annotations, defaultTTL) ==
    LET fallback == [ttl |-> defaultTTL, src |-> "default"]
        resolve[val \in STRING] ==
            IF val # ""
            THEN IF ParseDuration(val).ok
                 THEN [ttl |-> ParseDuration(val).d, src |-> "annotation"]
                 ELSE IF Atoi(val).ok
                      THEN [ttl |-> HoursToDuration(Atoi(val).n), src |-> "annotation"]
                      ELSE [ttl |-> 0, src |-> "annotation"]
            ELSE fallback
    IN IF MapHas(annotations, AnnotationTTL)
       THEN resolve[TrimSpace(annotations[AnnotationTTL])]
       ELSE fallback

resolveTTL(annotations, defaultTTL) ==
    LET fallback == [ttl |-> defaultTTL, src |-> "default"]
        resolve[val \in STRING] ==
            IF val # ""
            THEN IF ParseDuration(val).ok
                 THEN [ttl |-> ParseDuration(val).d, src |-> "annotation"]
                 ELSE IF Atoi(val).ok
                      THEN [ttl |-> HoursToDuration(Atoi(val).n), src |-> "annotation"]
                      ELSE fallback
            ELSE fallback
    IN IF MapHas(annotations, AnnotationTTL)
       THEN resolve[TrimSpace(annotations[AnnotationTTL])]
       ELSE fallback

(***************************************************************************)
(* withJitter(base, pct) with pct in hundredths; sign is +1 or -1, from    *)
(* the low bit of the wall clock's nanoseconds.                            *)
(***************************************************************************)
\* Go's integer division truncates toward zero.
QuoTrunc(a, b) == IF a >= 0 THEN a \div b ELSE 0 - ((0 - a) \div b)

\* withJitter adding or taking away the whole of delta.
withJitter_FullDelta(base, pct, sign) ==
    IF pct <= 0 THEN base
    ELSE LET delta == QuoTrunc(base * pct, 100)
         IN base + sign * delta

withJitter(base, pct, sign) ==
    IF pct <= 0 THEN base
    ELSE LET delta == QuoTrunc(base * pct, 100)
         IN base + QuoTrunc(sign * delta, 2)

(***************************************************************************)
(* The cluster state store and the sweeper's state.                        *)
(***************************************************************************)
VARIABLES
    store,    \* the cluster's namespaces: name -> Namespace object
    clock,    \* the wall clock (time.Now()), in milliseconds
    ctxDone,  \* whether the context handed to Start is cancelled
    s,        \* the NamespaceSweeper struct: TTL, Interval, JitterPercent, DryRun, Recorder
    pc,       \* where Start is: "init", "select", "done" (cancellation case taken),
              \* "loop" (inside SweepOnce), "stopped"
    timerAt,  \* the instant the timer of Start fires at
    pass,     \* the locals of the current (or last) SweepOnce and what it sent
    metrics,  \* the Prometheus counters and gauges
    everHeld, \* the names some pass has skipped as on hold (history)
    leader,   \* the replica whose manager holds the leader lease, or "none"
    peer      \* the scheduler of the other replica: "idle", "running", "stopped"

vars == <<store, clock, ctxDone, s, pc, timerAt, pass, metrics, everHeld,
         leader, peer>>

\* The namespaces of the modelled cluster.
Names == {"preview-a", "preview-b", "kube-system"}

\* The label sets and annotation sets namespaces start with.
InitLabels == {EmptyMap, LabelPreview :> "true"}

InitAnnotations ==
    { EmptyMap,
      AnnotationHold :> "true",
      AnnotationTTL :> "0",
      AnnotationTTL :> "500ms" }

\* Creation timestamps: at the sweeper's start (at instant t0), or one
\* second ahead of its clock.
CreationTimes(t0) == {t0, t0 + Second}

Namespace(name, labels, annotations, created) ==
    [ Name |-> name,
      Labels |-> labels,
      Annotations |-> annotations,
      CreationTimestamp |-> created,
      DeletionTimestampSet |-> FALSE ]

\* The objects a namespace can start as: "preview-a" in every combination of
\* label, annotation and creation time; the others enabled, without
\* annotations and created at the sweeper's start.
InitObjects(name, t0) ==
    IF name = "preview-a"
    THEN { Namespace(name, l, a, c) :
             l \in InitLabels, a \in InitAnnotations, c \in CreationTimes(t0) }
    ELSE { Namespace(name, LabelPreview :> "true", EmptyMap, t0) }

InitStores(t0) ==
    UNION { { st \in [present -> UNION { InitObjects(n, t0) : n \in present }] :
                \A n \in present : st[n].Name = n }
            : present \in SUBSET Names }

\* The configurations the sweeper is constructed with.
Configs ==
    [ TTL : {0, Second},
      Interval : {Second},
      JitterPercent : {0},
      DryRun : BOOLEAN,
      Recorder : {TRUE} ]

ZeroMetrics ==
    [ sweepsTotal |-> 0, sweepDuration |-> 0, listErrorsTotal |-> 0,
      lastScanned |-> 0, lastCandidates |-> 0, lastExpired |-> 0, lastDeleted |-> 0,
      deleted |-> 0, dry_run |-> 0, error |-> 0 ]

\* The locals of SweepOnce at its entry, with the log of what the pass sends.
NewPass(before) ==
    [ nsList |-> <<>>, i |-> 1, now |-> 0,
      scanned |-> 0, candidates |-> 0, expired |-> 0, deleted |-> 0,
      lists |-> 0,       \* the number of List calls made
      listed |-> FALSE,  \* List returned without error
      deletes |-> <<>>,  \* the names Delete was called with, in order
      events |-> <<>>,   \* the events sent to the Recorder: <<name, reason>>
      status |-> <<>>,   \* the branch each listed namespace ended in
      before |-> before, \* the counters when the pass began
      afterCancel |-> ctxDone, \* the context was cancelled when the pass began
      failedBefore |-> {}, \* the names whose Delete failed in an earlier pass
      deletedBefore |-> {}, \* the names whose Delete succeeded in an earlier pass
      resolved |-> <<>>  \* what resolveTTL returned for each listed namespace
    ]

\* The names whose Delete has failed, in this pass or in one before it.
FailedSoFar ==
    pass.failedBefore \cup
      { pass.nsList[k].Name :
          k \in { j \in 1..Len(pass.status) : pass.status[j] = "DeleteFailed" } }

\* The names whose Delete has succeeded, in this pass or in one before it.
DeletedSoFar ==
    pass.deletedBefore \cup
      { pass.nsList[k].Name :
          k \in { j \in 1..Len(pass.status) : pass.status[j] = "Deleted" } }

\* The counters among the metrics (the gauges left out).
Counters(m) ==
    [ sweepsTotal |-> m.sweepsTotal, sweepDuration |-> m.sweepDuration,
      listErrorsTotal |-> m.listErrorsTotal,
      deleted |-> m.deleted, dry_run |-> m.dry_run, error |-> m.error ]

\* The state after construction, the clock reading t0.
InitAt(t0) ==
    /\ store \in InitStores(t0)
    /\ clock = t0
    /\ ctxDone = FALSE
    /\ s \in Configs
    /\ pc = "init"
    /\ timerAt = t0
    /\ pass = NewPass(Counters(ZeroMetrics))
    /\ metrics = ZeroMetrics
    /\ everHeld = {}

\* The manager of this replica holds the lease from the beginning (a manager
\* without leader election starts its runnables at once).
Elected == leader = "self" /\ peer = "idle"

Init == InitAt(0) /\ Elected

(***************************************************************************)
(* The store's operations, as the sweeper's client calls them.             *)
(***************************************************************************)
\* StoreList without the label selector: every namespace is listed.
StoreList_NoSelector(st) == { st[n] : n \in DOMAIN st }

\* Client.List with the selector {LabelPreview: "true"}: the matching objects.
StoreList(st) ==
    { st[n] : n \in { m \in DOMAIN st : MapGet(st[m].Labels, LabelPreview) = "true" } }

\* The orders a set of objects can be returned in.
Orders(objs) ==
    { o \in [1..Cardinality(objs) -> objs] :
        \A a, b \in 1..Cardinality(objs) : a # b => o[a] # o[b] }

\* Client.Delete returning nil: the namespace is marked for deletion
\* (deletion timestamp set) and stays until its finalization ends.
StoreDelete(st, name) == [st EXCEPT ![name].DeletionTimestampSet = TRUE]

(***************************************************************************)
(* SweepOnce: the decision of the loop body for one listed namespace.      *)
(***************************************************************************)
\* IsCandidate without the deletion timestamp check of lines 170-172.
IsCandidate_NoDeletionCheck(ns) ==
    /\ ~(ns.Name = "kube-system" \/ ns.Name = "default" \/ ns.Name = "kube-public")
    /\ HasPrefix(ns.Name, "preview-")

\* Lines 170-182: whether a listed namespace is counted as a candidate.
IsCandidate(ns) ==
    /\ ~ns.DeletionTimestampSet
    /\ ~(ns.Name = "kube-system" \/ ns.Name = "default" \/ ns.Name = "kube-public")
    /\ HasPrefix(ns.Name, "preview-")

\* Decide with `age < effectiveTTL` in place of `age <= effectiveTTL` (line 197).
Decide_ExpireAtTTL(ns, now, sw) ==
    IF ~IsCandidate(ns) THEN "Excluded"
    ELSE LET r == resolveTTL(ns.Annotations, sw.TTL)
             age == now - ns.CreationTimestamp
         IN IF MapGet(ns.Annotations, AnnotationHold) = "true" THEN "Held"
            ELSE IF r.ttl <= 0 THEN "TTLDisabled"
            ELSE IF age < r.ttl THEN "NotYetExpired"
            ELSE "Expired"

\* Decide without the non-positive TTL check of lines 191-194.
Decide_NoTTLCheck(ns, now, sw) ==
    IF ~IsCandidate(ns) THEN "Excluded"
    ELSE LET r == resolveTTL(ns.Annotations, sw.TTL)
             age == now - ns.CreationTimestamp
         IN IF MapGet(ns.Annotations, AnnotationHold) = "true" THEN "Held"
            ELSE IF age <= r.ttl THEN "NotYetExpired"
            ELSE "Expired"

\* Decide remembering the hold a former pass has seen.
Decide_CachedHold(ns, now, sw) ==
    IF ~IsCandidate(ns) THEN "Excluded"
    ELSE LET r == resolveTTL(ns.Annotations, sw.TTL)
             age == now - ns.CreationTimestamp
         IN IF MapGet(ns.Annotations, AnnotationHold) = "true"
               \/ ns.Name \in everHeld THEN "Held"
            ELSE IF r.ttl <= 0 THEN "TTLDisabled"
            ELSE IF age <= r.ttl THEN "NotYetExpired"
            ELSE "Expired"

\* Decide taking the hold annotation as a boolean, read leniently: spaces
\* around it and a capital letter allowed.
Decide_LenientHold(ns, now, sw) ==
    IF ~IsCandidate(ns) THEN "Excluded"
    ELSE LET r == resolveTTL(ns.Annotations, sw.TTL)
             age == now - ns.CreationTimestamp
         IN IF TrimSpace(MapGet(ns.Annotations, AnnotationHold)) \in {"true", "True"}
            THEN "Held"
            ELSE IF r.ttl <= 0 THEN "TTLDisabled"
            ELSE IF age <= r.ttl THEN "NotYetExpired"
            ELSE "Expired"

\* Decide without the hold check of lines 186-189.
Decide_NoHold(ns, now, sw) ==
    IF ~IsCandidate(ns) THEN "Excluded"
    ELSE LET r == resolveTTL(ns.Annotations, sw.TTL)
             age == now - ns.CreationTimestamp
         IN IF r.ttl <= 0 THEN "TTLDisabled"
            ELSE IF age <= r.ttl THEN "NotYetExpired"
            ELSE "Expired"

\* Lines 170-200: the branch the loop body takes for ns, up to `expired++`.
Decide(ns, now, sw) ==
    IF ~IsCandidate(ns) THEN "Excluded"
    ELSE LET r == resolveTTL(ns.Annotations, sw.TTL)
             age == now - ns.CreationTimestamp
         IN IF MapGet(ns.Annotations, AnnotationHold) = "true" THEN "Held"
            ELSE IF r.ttl <= 0 THEN "TTLDisabled"
            ELSE IF age <= r.ttl THEN "NotYetExpired"
            ELSE "Expired"

\* Line 184: what resolveTTL returns for a namespace the loop takes as a
\* candidate (the loop does not call it for the others).
Resolved(ns, sw) ==
    IF IsCandidate(ns)
    THEN resolveTTL(ns.Annotations, sw.TTL)
    ELSE [ttl |-> 0, src |-> "none"]

\* Current staying at the first listed namespace.
Current_AlwaysFirst == pass.nsList[1]

\* The namespace the loop is at.
Current == pass.nsList[pass.i]

InLoop == pc = "loop" /\ pass.i <= Len(pass.nsList)

\* Recorder.Eventf, when a Recorder is set.
Emit(events, name, reason) ==
    IF s.Recorder THEN Append(events, <<name, reason>>) ELSE events

(***************************************************************************)
(* The horizon of the clock.  The counters that grow with every pass are   *)
(* kept up to the horizon: past it (clock > Horizon, only where time is    *)
(* let run without end) an increment leaves the counter as it is.  The     *)
(* deleted outcome counter is at most the number of namespaces and is      *)
(* always kept.                                                            *)
(***************************************************************************)
Horizon == MaxTicks * Second

\* Counter.Inc of a counter without a bound
Inc(x) == IF clock > Horizon THEN x ELSE x + 1

(***************************************************************************)
(* Start: the scheduler.                                                   *)
(***************************************************************************)
\* Lines 115-119: Start comes to its select with the timer just set, so
\* that a context cancelled by then leaves the cancellation case alone
\* ready and the select takes it ("done"); otherwise Start waits ("select").
Select == IF ctxDone THEN "done" ELSE "select"

\* Lines 90-95: the sweeper is a LeaderElectionRunnable that always asks
\* for leadership.
NeedLeaderElection_Never == FALSE

NeedLeaderElection == TRUE

\* The manager the sweeper is added to calls Start of a runnable that needs
\* leader election only in the replica that holds the lease.
MayStart(replica) == NeedLeaderElection => leader = replica

\* Start computing the first delay with the configured jitter.
Start_SteadyJitter ==
    /\ pc = "init"
    /\ MayStart("self")
    /\ \E sign \in {1, -1} :
         LET interval == IF s.Interval <= 0 THEN 24 * Hour ELSE s.Interval
         IN /\ s' = [s EXCEPT !.Interval = interval]
            /\ timerAt' = clock + withJitter(interval, s.JitterPercent, sign)
    /\ pc' = Select
    /\ UNCHANGED <<store, clock, ctxDone, pass, metrics, everHeld, leader, peer>>

\* Lines 97-113: the interval's fallback and the first timer.
Start ==
    /\ pc = "init"
    /\ MayStart("self")
    /\ \E sign \in {1, -1} :
         LET interval == IF s.Interval <= 0 THEN 24 * Hour ELSE s.Interval
         IN /\ s' = [s EXCEPT !.Interval = interval]
            /\ timerAt' = clock + withJitter(interval, FirstJitterPercent, sign)
    /\ pc' = Select
    /\ UNCHANGED <<store, clock, ctxDone, pass, metrics, everHeld, leader, peer>>

\* Lines 117-119: the cancellation case, taken already or chosen now among
\* the ready cases, logs and returns nil.
Stop ==
    /\ \/ pc = "done"
       \/ pc = "select" /\ ctxDone
    /\ pc' = "stopped"
    /\ UNCHANGED <<store, clock, ctxDone, s, timerAt, pass, metrics, everHeld, leader, peer>>

\* TimerFired for a timer served on a goroutine of its own: whenever it is due.
TimerFired_AnyTime == clock >= timerAt

\* Line 120: Start is at its select and the timer's channel is ready.
TimerFired == pc = "select" /\ clock >= timerAt

\* Lines 122-123: the timer re-armed after SweepOnce has returned.
Rearm ==
    \E sign \in {1, -1} :
        timerAt' = clock + withJitter(s.Interval, s.JitterPercent, sign)

(***************************************************************************)
(* SweepOnce.                                                              *)
(***************************************************************************)
\* Lines 139-149: the deferred end-of-pass updates.
Deferred(m) ==
    [m EXCEPT !.sweepsTotal = Inc(@), !.sweepDuration = Inc(@)]

\* SweepListErr returning from Start: a List error ends the scheduler.
SweepListErr_Stops ==
    /\ TimerFired
    /\ pass' = [NewPass(Counters(metrics)) EXCEPT !.lists = 1,
                                                !.failedBefore = FailedSoFar,
                                                !.deletedBefore = DeletedSoFar]
    /\ metrics' = Deferred([metrics EXCEPT
                      !.listErrorsTotal = Inc(@),
                      !.lastScanned = 0,
                      !.lastCandidates = 0,
                      !.lastExpired = 0,
                      !.lastDeleted = 0])
    /\ pc' = "stopped"
    /\ UNCHANGED <<store, clock, ctxDone, s, timerAt, everHeld, leader, peer>>

\* SweepListErr leaving the gauges of the pass before as they are.
SweepListErr_KeepsGauges ==
    /\ TimerFired
    /\ pass' = [NewPass(Counters(metrics)) EXCEPT !.lists = 1,
                                                !.failedBefore = FailedSoFar,
                                                !.deletedBefore = DeletedSoFar]
    /\ metrics' = Deferred([metrics EXCEPT !.listErrorsTotal = Inc(@)])
    /\ Rearm
    /\ pc' = Select
    /\ UNCHANGED <<store, clock, ctxDone, s, everHeld, leader, peer>>

\* SweepListErr returning without the deferred updates.
SweepListErr_Uncounted ==
    /\ TimerFired
    /\ pass' = [NewPass(Counters(metrics)) EXCEPT !.lists = 1,
                                                !.failedBefore = FailedSoFar,
                                                !.deletedBefore = DeletedSoFar]
    /\ metrics' = [metrics EXCEPT
                      !.listErrorsTotal = Inc(@),
                      !.lastScanned = 0,
                      !.lastCandidates = 0,
                      !.lastExpired = 0,
                      !.lastDeleted = 0]
    /\ Rearm
    /\ pc' = Select
    /\ UNCHANGED <<store, clock, ctxDone, s, everHeld, leader, peer>>

\* Lines 120-123, 128-163: the timer fires, List fails, the pass returns.
SweepListErr ==
    /\ TimerFired
    /\ pass' = [NewPass(Counters(metrics)) EXCEPT !.lists = 1,
                                                !.failedBefore = FailedSoFar,
                                                !.deletedBefore = DeletedSoFar]
    /\ metrics' = Deferred([metrics EXCEPT
                      !.listErrorsTotal = Inc(@),
                      !.lastScanned = 0,
                      !.lastCandidates = 0,
                      !.lastExpired = 0,
                      !.lastDeleted = 0])
    /\ Rearm
    /\ pc' = Select
    /\ UNCHANGED <<store, clock, ctxDone, s, everHeld, leader, peer>>

\* SweepListOk without lastScanned.Set of line 164: the gauge is left for
\* the end of the pass.
SweepListOk_ScannedAtEnd ==
    /\ TimerFired
    /\ \E order \in Orders(StoreList(store)) :
         pass' = [NewPass(Counters(metrics)) EXCEPT
                    !.nsList = order,
                    !.lists = 1,
                    !.listed = TRUE,
                    !.scanned = Len(order),
                    !.now = clock,
                    !.failedBefore = FailedSoFar,
                    !.deletedBefore = DeletedSoFar]
    /\ pc' = "loop"
    /\ UNCHANGED <<store, clock, ctxDone, s, timerAt, metrics, everHeld, leader, peer>>

\* Lines 120-121, 128-166: the timer fires, List returns the labelled
\* namespaces in some order, the clock is read.
SweepListOk ==
    /\ TimerFired
    /\ \E order \in Orders(StoreList(store)) :
         pass' = [NewPass(Counters(metrics)) EXCEPT
                    !.nsList = order,
                    !.lists = 1,
                    !.listed = TRUE,
                    !.scanned = Len(order),
                    !.now = clock,
                    !.failedBefore = FailedSoFar,
                    !.deletedBefore = DeletedSoFar]
    /\ metrics' = [metrics EXCEPT !.lastScanned = Cardinality(StoreList(store))]
    /\ pc' = "loop"
    /\ UNCHANGED <<store, clock, ctxDone, s, timerAt, everHeld, leader, peer>>

\* SweepSkip taking the hold annotation off the namespace it skips.
SweepSkip_ClearsHold ==
    /\ InLoop
    /\ UNCHANGED <<clock, ctxDone, s, pc, timerAt, metrics, leader, peer>>
    /\ \E branch \in {Decide(Current, pass.now, s)} :
         /\ branch # "Expired"
         /\ pass' = [pass EXCEPT
                       !.i = @ + 1,
                       !.candidates = IF branch # "Excluded" THEN @ + 1 ELSE @,
                       !.status = Append(@, branch),
                       !.resolved = Append(@, Resolved(Current, s))]
         /\ everHeld' = IF branch = "Held"
                        THEN everHeld \cup {Current.Name}
                        ELSE everHeld
         /\ store' = IF branch = "Held" /\ Current.Name \in DOMAIN store
                     THEN [store EXCEPT ![Current.Name].Annotations =
                                          MapRemove(@, AnnotationHold)]
                     ELSE store

\* Lines 168-199: the loop body ends in a `continue` before `expired++`.
SweepSkip ==
    /\ InLoop
    /\ UNCHANGED <<store, clock, ctxDone, s, pc, timerAt, metrics, leader, peer>>
    /\ \E branch \in {Decide(Current, pass.now, s)} :
         /\ branch # "Expired"
         /\ pass' = [pass EXCEPT
                       !.i = @ + 1,
                       !.candidates = IF branch # "Excluded" THEN @ + 1 ELSE @,
                       !.status = Append(@, branch),
                       !.resolved = Append(@, Resolved(Current, s))]
         /\ everHeld' = IF branch = "Held"
                        THEN everHeld \cup {Current.Name}
                        ELSE everHeld

\* SweepDryRun without the `continue` of line 209: it goes on to Delete.
SweepDryRun_Deletes ==
    /\ InLoop
    /\ UNCHANGED <<clock, ctxDone, s, pc, timerAt, everHeld, leader, peer>>
    /\ Decide(Current, pass.now, s) = "Expired"
    /\ s.DryRun
    /\ Current.Name \in DOMAIN store
    /\ store' = StoreDelete(store, Current.Name)
    /\ pass' = [pass EXCEPT
                  !.i = @ + 1,
                  !.candidates = @ + 1,
                  !.expired = @ + 1,
                  !.deleted = @ + 1,
                  !.deletes = Append(@, Current.Name),
                  !.events = Emit(Emit(@, Current.Name, "NamespaceCleanupDryRun"),
                                  Current.Name, "NamespaceCleanup"),
                  !.status = Append(@, "DryRunSkipped"),
                  !.resolved = Append(@, Resolved(Current, s))]
    /\ metrics' = [metrics EXCEPT !.dry_run = Inc(@), !.deleted = @ + 1]

\* SweepDryRun counting the namespace in the deleted count of the pass.
SweepDryRun_CountsDeleted ==
    /\ InLoop
    /\ UNCHANGED <<store, clock, ctxDone, s, pc, timerAt, everHeld, leader, peer>>
    /\ Decide(Current, pass.now, s) = "Expired"
    /\ s.DryRun
    /\ pass' = [pass EXCEPT
                  !.i = @ + 1,
                  !.candidates = @ + 1,
                  !.expired = @ + 1,
                  !.deleted = @ + 1,
                  !.events = Emit(@, Current.Name, "NamespaceCleanupDryRun"),
                  !.status = Append(@, "DryRunSkipped"),
                  !.resolved = Append(@, Resolved(Current, s))]
    /\ metrics' = [metrics EXCEPT !.dry_run = Inc(@)]

\* SweepDryRun leaving the dry_run outcome counter as it is.
SweepDryRun_Uncounted ==
    /\ InLoop
    /\ UNCHANGED <<store, clock, ctxDone, s, pc, timerAt, everHeld, leader, peer>>
    /\ Decide(Current, pass.now, s) = "Expired"
    /\ s.DryRun
    /\ pass' = [pass EXCEPT
                  !.i = @ + 1,
                  !.candidates = @ + 1,
                  !.expired = @ + 1,
                  !.events = Emit(@, Current.Name, "NamespaceCleanupDryRun"),
                  !.status = Append(@, "DryRunSkipped"),
                  !.resolved = Append(@, Resolved(Current, s))]
    /\ metrics' = metrics

\* Lines 200-210: an expired namespace in dry-run.
SweepDryRun ==
    /\ InLoop
    /\ UNCHANGED <<store, clock, ctxDone, s, pc, timerAt, everHeld, leader, peer>>
    /\ Decide(Current, pass.now, s) = "Expired"
    /\ s.DryRun
    /\ pass' = [pass EXCEPT
                  !.i = @ + 1,
                  !.candidates = @ + 1,
                  !.expired = @ + 1,
                  !.events = Emit(@, Current.Name, "NamespaceCleanupDryRun"),
                  !.status = Append(@, "DryRunSkipped"),
                  !.resolved = Append(@, Resolved(Current, s))]
    /\ metrics' = [metrics EXCEPT !.dry_run = Inc(@)]

\* SweepDeleteOk counting the namespace twice in deleted.
SweepDeleteOk_CountsTwice ==
    /\ InLoop
    /\ UNCHANGED <<clock, ctxDone, s, pc, timerAt, everHeld, leader, peer>>
    /\ Decide(Current, pass.now, s) = "Expired"
    /\ ~s.DryRun
    /\ Current.Name \in DOMAIN store
    /\ store' = StoreDelete(store, Current.Name)
    /\ pass' = [pass EXCEPT
                  !.i = @ + 1,
                  !.candidates = @ + 1,
                  !.expired = @ + 1,
                  !.deleted = @ + 2,
                  !.deletes = Append(@, Current.Name),
                  !.events = Emit(@, Current.Name, "NamespaceCleanup"),
                  !.status = Append(@, "Deleted"),
                  !.resolved = Append(@, Resolved(Current, s))]
    /\ metrics' = [metrics EXCEPT !.deleted = @ + 1]

\* Lines 200, 212-224: an expired namespace, Delete returns nil.
SweepDeleteOk ==
    /\ InLoop
    /\ UNCHANGED <<clock, ctxDone, s, pc, timerAt, everHeld, leader, peer>>
    /\ Decide(Current, pass.now, s) = "Expired"
    /\ ~s.DryRun
    /\ Current.Name \in DOMAIN store
    /\ store' = StoreDelete(store, Current.Name)
    /\ pass' = [pass EXCEPT
                  !.i = @ + 1,
                  !.candidates = @ + 1,
                  !.expired = @ + 1,
                  !.deleted = @ + 1,
                  !.deletes = Append(@, Current.Name),
                  !.events = Emit(@, Current.Name, "NamespaceCleanup"),
                  !.status = Append(@, "Deleted"),
                  !.resolved = Append(@, Resolved(Current, s))]
    /\ metrics' = [metrics EXCEPT !.deleted = @ + 1]

\* SweepDeleteErr calling Delete a second time after the error.
SweepDeleteErr_Retry ==
    /\ InLoop
    /\ UNCHANGED <<store, clock, ctxDone, s, pc, timerAt, everHeld, leader, peer>>
    /\ Decide(Current, pass.now, s) = "Expired"
    /\ ~s.DryRun
    /\ pass' = [pass EXCEPT
                  !.i = @ + 1,
                  !.candidates = @ + 1,
                  !.expired = @ + 1,
                  !.deletes = Append(Append(@, Current.Name), Current.Name),
                  !.status = Append(@, "DeleteFailed"),
                  !.resolved = Append(@, Resolved(Current, s))]
    /\ metrics' = [metrics EXCEPT !.error = Inc(Inc(@))]

\* SweepDeleteErr returning from the pass on the error.
SweepDeleteErr_Aborts ==
    /\ InLoop
    /\ UNCHANGED <<store, clock, ctxDone, s, everHeld, leader, peer>>
    /\ Decide(Current, pass.now, s) = "Expired"
    /\ ~s.DryRun
    /\ pass' = [pass EXCEPT
                  !.i = @ + 1,
                  !.candidates = @ + 1,
                  !.expired = @ + 1,
                  !.deletes = Append(@, Current.Name),
                  !.status = Append(@, "DeleteFailed"),
                  !.resolved = Append(@, Resolved(Current, s))]
    /\ metrics' = Deferred([metrics EXCEPT !.error = Inc(@)])
    /\ Rearm
    /\ pc' = Select

\* SweepDeleteErr counting the failed namespace as deleted, with its event.
SweepDeleteErr_Counted ==
    /\ InLoop
    /\ UNCHANGED <<store, clock, ctxDone, s, pc, timerAt, everHeld, leader, peer>>
    /\ Decide(Current, pass.now, s) = "Expired"
    /\ ~s.DryRun
    /\ pass' = [pass EXCEPT
                  !.i = @ + 1,
                  !.candidates = @ + 1,
                  !.expired = @ + 1,
                  !.deleted = @ + 1,
                  !.deletes = Append(@, Current.Name),
                  !.events = Emit(@, Current.Name, "NamespaceCleanup"),
                  !.status = Append(@, "DeleteFailed"),
                  !.resolved = Append(@, Resolved(Current, s))]
    /\ metrics' = [metrics EXCEPT !.error = Inc(@)]

\* Lines 200, 212-217: an expired namespace, Delete returns an error.
SweepDeleteErr ==
    /\ InLoop
    /\ UNCHANGED <<store, clock, ctxDone, s, pc, timerAt, everHeld, leader, peer>>
    /\ Decide(Current, pass.now, s) = "Expired"
    /\ ~s.DryRun
    /\ pass' = [pass EXCEPT
                  !.i = @ + 1,
                  !.candidates = @ + 1,
                  !.expired = @ + 1,
                  !.deletes = Append(@, Current.Name),
                  !.status = Append(@, "DeleteFailed"),
                  !.resolved = Append(@, Resolved(Current, s))]
    /\ metrics' = [metrics EXCEPT !.error = Inc(@)]

\* SweepFinish adding the counts of the pass to the gauges.
SweepFinish_Accumulates ==
    /\ pc = "loop"
    /\ pass.i > Len(pass.nsList)
    /\ metrics' = Deferred([metrics EXCEPT
                      !.lastCandidates = @ + pass.candidates,
                      !.lastExpired = @ + pass.expired,
                      !.lastDeleted = @ + pass.deleted])
    /\ Rearm
    /\ pc' = Select
    /\ UNCHANGED <<store, clock, ctxDone, s, pass, everHeld, leader, peer>>

\* Lines 122-123, 139-149, 227-231: the loop is over; the gauges, the
\* deferred updates, and Start re-arms the timer.
SweepFinish ==
    /\ pc = "loop"
    /\ pass.i > Len(pass.nsList)
    /\ metrics' = Deferred([metrics EXCEPT
                      !.lastCandidates = pass.candidates,
                      !.lastExpired = pass.expired,
                      !.lastDeleted = pass.deleted])
    /\ Rearm
    /\ pc' = Select
    /\ UNCHANGED <<store, clock, ctxDone, s, pass, everHeld, leader, peer>>

(***************************************************************************)
(* The environment: time, the operators of the cluster, the store.         *)
(***************************************************************************)
Tick ==
    /\ clock < MaxTicks * Second
    /\ clock' = clock + Second
    /\ UNCHANGED <<store, ctxDone, s, pc, timerAt, pass, metrics, everHeld, leader, peer>>

\* Cancel that Start, waiting at its select, does not wake up on.
Cancel_Unnoticed ==
    /\ ~ctxDone
    /\ ctxDone' = TRUE
    /\ UNCHANGED <<store, clock, s, pc, timerAt, pass, metrics, everHeld, leader, peer>>

\* Cancel ending the pass that is under way.
Cancel_AbortsPass ==
    /\ ~ctxDone
    /\ ctxDone' = TRUE
    /\ pc' = IF pc = "loop" \/ (pc = "select" /\ clock < timerAt) THEN "done" ELSE pc
    /\ UNCHANGED <<store, clock, s, timerAt, pass, metrics, everHeld, leader, peer>>

\* The manager's context is cancelled.  A Start that waits at its select
\* with the timer not expired is woken by the cancellation and takes that
\* case; with the timer expired too both cases are ready.
Cancel ==
    /\ ~ctxDone
    /\ ctxDone' = TRUE
    /\ pc' = IF pc = "select" /\ clock < timerAt THEN "done" ELSE pc
    /\ UNCHANGED <<store, clock, s, timerAt, pass, metrics, everHeld, leader, peer>>

\* An operator removes the hold annotation of a namespace.
RemoveHold(n) ==
    /\ n \in DOMAIN store
    /\ MapHas(store[n].Annotations, AnnotationHold)
    /\ store' = [store EXCEPT ![n].Annotations = MapRemove(@, AnnotationHold)]
    /\ UNCHANGED <<clock, ctxDone, s, pc, timerAt, pass, metrics, everHeld, leader, peer>>

\* The store ends the deletion of a namespace marked for deletion.
Finalize(n) ==
    /\ n \in DOMAIN store
    /\ store[n].DeletionTimestampSet
    /\ store' = [m \in (DOMAIN store) \ {n} |-> store[m]]
    /\ UNCHANGED <<clock, ctxDone, s, pc, timerAt, pass, metrics, everHeld, leader, peer>>

Next ==
    \/ Start
    \/ Stop
    \/ SweepListErr
    \/ SweepListOk
    \/ SweepSkip
    \/ SweepDryRun
    \/ SweepDeleteOk
    \/ SweepDeleteErr
    \/ SweepFinish
    \/ Tick
    \/ Cancel
    \/ \E n \in Names : RemoveHold(n)
    \/ \E n \in Names : Finalize(n)

Spec == Init /\ [][Next]_vars

(***************************************************************************)
(* Two replicas under the manager's leader election: this one ("self"),    *)
(* whose sweeper is the one above, and another ("peer"), of which only     *)
(* whether its scheduler runs is kept.  The election is the manager's: one *)
(* replica at most holds the lease, and the lease is given up only once    *)
(* the holder's runnables have returned.                                   *)
(***************************************************************************)
Replicas == {"self", "peer"}

\* Whether the scheduler of a replica has returned.
Returned(replica) == IF replica = "self" THEN pc = "stopped" ELSE peer = "stopped"

\* The manager of a replica acquires the free lease.
Elect(replica) ==
    /\ leader = "none"
    /\ ~Returned(replica)
    /\ leader' = replica
    /\ UNCHANGED <<store, clock, ctxDone, s, pc, timerAt, pass, metrics, everHeld, peer>>

\* The lease is released after its holder's scheduler has returned.
Release ==
    /\ leader \in Replicas
    /\ Returned(leader)
    /\ leader' = "none"
    /\ UNCHANGED <<store, clock, ctxDone, s, pc, timerAt, pass, metrics, everHeld, peer>>

\* The manager of the other replica calls Start of its sweeper.
PeerStart ==
    /\ peer = "idle"
    /\ MayStart("peer")
    /\ peer' = "running"
    /\ UNCHANGED <<store, clock, ctxDone, s, pc, timerAt, pass, metrics, everHeld, leader>>

\* The context of the other replica is cancelled and its Start returns.
PeerStop ==
    /\ peer = "running"
    /\ peer' = "stopped"
    /\ UNCHANGED <<store, clock, ctxDone, s, pc, timerAt, pass, metrics, everHeld, leader>>

ReplicaInit == InitAt(0) /\ DOMAIN store = Names /\ leader = "none" /\ peer = "idle"

ReplicaNext ==
    \/ Next
    \/ \E replica \in Replicas : Elect(replica)
    \/ Release
    \/ PeerStart
    \/ PeerStop

ReplicaSpec == ReplicaInit /\ [][ReplicaNext]_vars

(***************************************************************************)
(* The program from main on: the flags and the environment give the TTL    *)
(* and the interval, main replaces what is not positive and constructs the *)
(* sweeper.  Before the construction (pc = "main") s holds the locals of   *)
(* main: the flag values ttl and sweepEvery, the environment's TTL and     *)
(* SWEEP_EVERY, and the jitter and dry-run settings of the sweeper.        *)
(***************************************************************************)
defaultSweepEvery == 24 * Hour

defaultTTL == 72 * Hour

\* An environment variable overrides the flag when it is set and
\* time.ParseDuration accepts it.
EnvOverride(envVal, flagVal) ==
    IF envVal # "" /\ ParseDuration(envVal).ok
    THEN ParseDuration(envVal).d
    ELSE flagVal

\* The sanity checks of main.
Positive(d, fallback) == IF d <= 0 THEN fallback ELSE d

\* main without its sanity checks.
Main_NoFallback ==
    /\ pc = "main"
    /\ s' = [ TTL |-> EnvOverride(s.envTTL, s.ttl),
               Interval |-> EnvOverride(s.envSweepEvery, s.sweepEvery),
               JitterPercent |-> s.JitterPercent,
               DryRun |-> s.DryRun,
               Recorder |-> TRUE ]
    /\ pc' = "init"
    /\ UNCHANGED <<store, clock, ctxDone, timerAt, pass, metrics, everHeld, leader, peer>>

\* main up to the construction of the sweeper.
Main ==
    /\ pc = "main"
    /\ s' = [ TTL |-> Positive(EnvOverride(s.envTTL, s.ttl), defaultTTL),
               Interval |-> Positive(EnvOverride(s.envSweepEvery, s.sweepEvery),
                                     defaultSweepEvery),
               JitterPercent |-> s.JitterPercent,
               DryRun |-> s.DryRun,
               Recorder |-> TRUE ]
    /\ pc' = "init"
    /\ UNCHANGED <<store, clock, ctxDone, timerAt, pass, metrics, everHeld, leader, peer>>

\* The jitter settings, in hundredths.
JitterPercents == {0 - 50, 0, 33, 150}

\* What main is started with.
Supplied ==
    [ ttl : {0, Second},
      envTTL : {"", "-1s", "soon"},
      sweepEvery : {0, 7 * Millisecond, Second},
      envSweepEvery : {"", "-1s"},
      JitterPercent : JitterPercents,
      DryRun : BOOLEAN ]

ConfigInit ==
    /\ store \in { [n \in {"preview-a"} |->
                       Namespace(n, LabelPreview :> "true", a, 0)] :
                   a \in {EmptyMap, AnnotationHold :> "true"} }
    /\ clock = 0
    /\ ctxDone = FALSE
    /\ s \in Supplied
    /\ pc = "main"
    /\ timerAt = 0
    /\ pass = NewPass(Counters(ZeroMetrics))
    /\ metrics = ZeroMetrics
    /\ everHeld = {}
    /\ Elected

ConfigNext == Main \/ Next

ConfigSpec == ConfigInit /\ [][ConfigNext]_vars

(***************************************************************************)
(* The sweeper over one enabled namespace "preview-a" whose annotations    *)
(* are drawn from the forms a TTL annotation can take.                     *)
(***************************************************************************)
\* Annotation values that time.ParseDuration accepts once trimmed, with the
\* duration it returns.
DurationOf ==
    ("4h" :> 4 * Hour) @@ ("30m" :> 30 * Minute) @@
    ("2h45m" :> 2 * Hour + 45 * Minute) @@ (" 90s\n" :> 90 * Second) @@
    ("1.5h" :> Hour + 30 * Minute) @@ ("500ms" :> 500 * Millisecond) @@
    ("+3s" :> 3 * Second) @@ ("-1s" :> 0 - Second) @@ ("0" :> 0)

\* Annotation values that only strconv.Atoi accepts once trimmed, with the
\* integer it returns.
HoursOf == ("69" :> 69) @@ (" 2 " :> 2) @@ ("007" :> 7) @@ ("+5" :> 5)

\* Annotation values that are a bare negative integer once trimmed:
\* strconv.Atoi accepts a leading sign.
NegativeHoursOf == ("-5" :> 0 - 5) @@ (" -1\n" :> 0 - 1)

\* Annotation values that are empty once trimmed.
Blank == {"", "   ", "\t\n"}

\* Annotation values that neither of the two accepts.
Unparsable == {"abc", "4x", "1d", "h", "-", "4h5", "1 h", "1e3", "1.5", "4H"}

TTLValues ==
    DOMAIN DurationOf \cup DOMAIN HoursOf \cup DOMAIN NegativeHoursOf
      \cup Blank \cup Unparsable

ResolveAnnotations ==
    {EmptyMap}
      \cup { AnnotationTTL :> v : v \in TTLValues }
      \cup { (AnnotationTTL :> v) @@ (AnnotationHold :> "true") : v \in {"500ms", "abc"} }

ResolveInit ==
    /\ store \in { [n \in {"preview-a"} |->
                       Namespace(n, LabelPreview :> "true", a, 0)] :
                   a \in ResolveAnnotations }
    /\ clock = 0
    /\ ctxDone = FALSE
    /\ s \in Configs
    /\ pc = "init"
    /\ timerAt = 0
    /\ pass = NewPass(Counters(ZeroMetrics))
    /\ metrics = ZeroMetrics
    /\ everHeld = {}
    /\ Elected

ResolveSpec == ResolveInit /\ [][Next]_vars

(***************************************************************************)
(* The sweeper over namespaces whose TTL annotation is a whole number of   *)
(* hours, up to those whose product with time.Hour does not fit in 64 bits *)
(* of nanoseconds; the namespaces are as old as the sweeper, or half an    *)
(* hour older.                                                             *)
(***************************************************************************)
\* The annotation values and the whole number each one is.
WholeHoursOf ==
    ("1" :> 1) @@ ("2562047" :> 2562047) @@ ("2562048" :> 2562048)
      @@ ("5124095" :> 5124095) @@ ("5124096" :> 5124096)

LongAgo == 0 - 30 * Minute

WrapAnnotations(name) ==
    { AnnotationTTL :> v : v \in DOMAIN WholeHoursOf }
      \cup IF name = "preview-a"
           THEN { (AnnotationTTL :> "5124096") @@ (AnnotationHold :> "true") }
           ELSE {}

WrapInit ==
    /\ \E created \in {0, LongAgo} :
         store \in { st \in [ {"preview-a", "preview-b"} ->
                               UNION { { Namespace(n, LabelPreview :> "true", a, created) :
                                           a \in WrapAnnotations(n) } :
                                       n \in {"preview-a", "preview-b"} } ] :
                       \A n \in DOMAIN st : st[n].Name = n }
    /\ clock = 0
    /\ ctxDone = FALSE
    /\ s \in Configs
    /\ pc = "init"
    /\ timerAt = 0
    /\ pass = NewPass(Counters(ZeroMetrics))
    /\ metrics = ZeroMetrics
    /\ everHeld = {}
    /\ Elected

WrapSpec == WrapInit /\ [][Next]_vars

(***************************************************************************)
(* The sweeper over one enabled namespace whose hold annotation is absent  *)
(* or has one of several values, "true" and near misses of it.             *)
(***************************************************************************)
\* Values of the hold annotation other than "true".
OtherHoldValues == {"True", "TRUE", " true", "true ", "false", "", "1", "yes"}

HoldAnnotations ==
    {EmptyMap}
      \cup { AnnotationHold :> v : v \in OtherHoldValues \cup {"true"} }
      \cup { (AnnotationHold :> v) @@ (AnnotationTTL :> "500ms") :
               v \in OtherHoldValues \cup {"true"} }

HoldInit ==
    /\ store \in { [n \in {"preview-a"} |->
                       Namespace(n, LabelPreview :> "true", a, 0)] :
                   a \in HoldAnnotations }
    /\ clock = 0
    /\ ctxDone = FALSE
    /\ s \in Configs
    /\ pc = "init"
    /\ timerAt = 0
    /\ pass = NewPass(Counters(ZeroMetrics))
    /\ metrics = ZeroMetrics
    /\ everHeld = {}
    /\ Elected

HoldSpec == HoldInit /\ [][Next]_vars

(***************************************************************************)
(* The sweeper left running: no cancellation, dry-run off, time without    *)
(* end.  The clock starts one second past its horizon and stays there;     *)
(* time goes on by moving every instant still ahead of zero one second     *)
(* back (a timer that is due stays due): an age that has reached the       *)
(* clock's value is above every positive TTL of the model and stays there. *)
(***************************************************************************)
Back(instant) == IF instant >= Second THEN instant - Second ELSE 0

TickBeyond ==
    /\ clock > Horizon
    /\ timerAt' = IF timerAt <= clock THEN timerAt ELSE Back(timerAt)
    /\ store' = [n \in DOMAIN store |->
                   [store[n] EXCEPT !.CreationTimestamp = Back(@)]]
    /\ UNCHANGED <<clock, ctxDone, s, pc, pass, metrics, everHeld, leader, peer>>

LiveInit == InitAt(Horizon + Second) /\ Elected /\ ~s.DryRun /\ DOMAIN store = Names

LiveNext ==
    \/ Start
    \/ SweepListErr
    \/ SweepListOk
    \/ SweepSkip
    \/ SweepDeleteOk
    \/ SweepDeleteErr
    \/ SweepFinish
    \/ TickBeyond
    \/ \E n \in Names : RemoveHold(n)
    \/ \E n \in Names : Finalize(n)

\* Start runs on and time passes; List does not fail for ever, nor does
\* Delete (a namespace is deleted once at most, so that Delete cannot
\* succeed for one namespace and fail for another for ever).
Fairness ==
    /\ WF_vars(Start)
    /\ WF_vars(TickBeyond)
    /\ SF_vars(SweepListOk)
    /\ WF_vars(SweepSkip)
    /\ SF_vars(SweepDeleteOk)
    /\ WF_vars(SweepFinish)

LiveSpec == LiveInit /\ [][LiveNext]_vars /\ Fairness

(***************************************************************************)
(* What the properties below read from a pass.                             *)
(***************************************************************************)
\* The positions of the listing the loop has been through.
Processed == 1..Len(pass.status)

ExpiredStatus == {"DryRunSkipped", "Deleted", "DeleteFailed"}

\* How many Delete requests the pass has issued for a name.
DeleteCount(name) ==
    Cardinality({ j \in 1..Len(pass.deletes) : pass.deletes[j] = name })

\* How many events the pass has emitted about a name.
EventCount(name) ==
    Cardinality({ j \in 1..Len(pass.events) : pass.events[j][1] = name })

\* The listed namespace's own attributes, read from the listing.
ItemHeld(ns) ==
    /\ AnnotationHold \in DOMAIN ns.Annotations
    /\ ns.Annotations[AnnotationHold] = "true"

ItemNamed(ns) ==
    /\ Len(ns.Name) >= 8
    /\ SubSeq(ns.Name, 1, 8) = "preview-"

ItemTTL(ns) == resolveTTL(ns.Annotations, s.TTL).ttl

ItemAge(ns) == pass.now - ns.CreationTimestamp

\* The counts of the pass agree with the branches its namespaces ended in.
CountsFollowStatus ==
    /\ pass.candidates =
         Cardinality({ k \in Processed : pass.status[k] # "Excluded" })
    /\ pass.expired =
         Cardinality({ k \in Processed : pass.status[k] \in ExpiredStatus })

\* A pass has returned and nothing has begun since.
PassReturned == pc \in {"select", "done", "stopped"} /\ pass.lists > 0

(***************************************************************************)
(* C1: in every pass, dry-run or not, a listed namespace whose hold        *)
(* annotation is "true" gets no Delete request and is not counted as       *)
(* expired, whatever its age and TTL; when it passes the name and          *)
(* deletion filter it is counted as a candidate (it ends as "Held").       *)
(***************************************************************************)
HoldNeverDeleted ==
    /\ CountsFollowStatus
    /\ \A k \in 1..Len(pass.nsList) :
         ItemHeld(pass.nsList[k]) =>
           /\ DeleteCount(pass.nsList[k].Name) = 0
           /\ k \in Processed =>
                /\ pass.status[k] \notin ExpiredStatus
                /\ (ItemNamed(pass.nsList[k]) /\ ~pass.nsList[k].DeletionTimestampSet)
                     => pass.status[k] = "Held"

\* A held namespace older than its positive TTL has been through the loop.
HoldNeverDeletedWitness ==
    \E k \in Processed :
        /\ ItemHeld(pass.nsList[k])
        /\ ItemTTL(pass.nsList[k]) > 0
        /\ ItemAge(pass.nsList[k]) > ItemTTL(pass.nsList[k])
        /\ pass.candidates >= 1
        /\ pass.expired = 0

(***************************************************************************)
(* C2: a namespace without the label enabled="true", or whose name does    *)
(* not start with "preview-", is never listed as a candidate and never     *)
(* receives a Delete request: it is never marked for deletion.             *)
(***************************************************************************)
Unlabelled(ns) ==
    \/ LabelPreview \notin DOMAIN ns.Labels
    \/ ns.Labels[LabelPreview] # "true"

ItemCandidate(ns) == ItemNamed(ns) /\ ~ns.DeletionTimestampSet

\* The listed namespace is an unheld candidate older than its positive TTL.
ItemDue(ns) ==
    /\ ItemCandidate(ns)
    /\ ~ItemHeld(ns)
    /\ ItemTTL(ns) > 0
    /\ ItemAge(ns) > ItemTTL(ns)

OneDeletePerDue ==
    ~s.DryRun =>
      /\ \A k \in 1..Len(pass.nsList) :
           DeleteCount(pass.nsList[k].Name) =
             IF k \in Processed /\ ItemDue(pass.nsList[k]) THEN 1 ELSE 0
      /\ \A j \in 1..Len(pass.deletes) :
           \E k \in Processed : pass.nsList[k].Name = pass.deletes[j]

\* A pass has returned after two Delete requests, one of which failed,
\* with a third listed namespace that got none.
OneDeletePerDueWitness ==
    /\ PassReturned
    /\ Len(pass.deletes) = 2
    /\ Len(pass.nsList) = 3
    /\ \E k \in Processed : pass.status[k] = "DeleteFailed"
    /\ \E k \in Processed : pass.status[k] = "Deleted"

(***************************************************************************)
(* C8: with dry-run on, no pass sends a Delete request; every unheld       *)
(* candidate past its TTL adds exactly one to the dry_run outcome counter  *)
(* in each pass; and no step of a pass changes the store.                  *)
(***************************************************************************)
DryRunState ==
    s.DryRun =>
      /\ pass.deletes = <<>>
      /\ metrics.deleted = 0
      /\ metrics.error = 0
      /\ metrics.dry_run - pass.before.dry_run =
           Cardinality({ k \in Processed : ItemDue(pass.nsList[k]) })
      /\ \A n \in DOMAIN store : ~store[n].DeletionTimestampSet

\* A step of the sweeper: one that changes the pass, the metrics or pc.
SweeperStep == pass' # pass \/ metrics' # metrics \/ pc' # pc

DryRunDeletesNothing ==
    /\ []DryRunState
    /\ [][(s.DryRun /\ SweeperStep) => store' = store]_vars

\* A second dry-run pass has counted a namespace the pass before it had
\* counted too.
DryRunDeletesNothingWitness ==
    /\ s.DryRun
    /\ PassReturned
    /\ pass.before.dry_run >= 1
    /\ metrics.dry_run - pass.before.dry_run >= 1
    /\ \E k \in Processed : ItemDue(pass.nsList[k])

(***************************************************************************)
(* C9: when List returns an error the pass adds one to the list-error      *)
(* counter, sets the four gauges to 0, sends no Delete request and no      *)
(* event, lists once only and returns; the scheduler stays in its loop     *)
(* with the timer re-armed, so that the next pass lists again.             *)
(***************************************************************************)
ListErrorAbortsPass ==
    (PassReturned /\ ~pass.listed) =>
      /\ pass.lists = 1
      /\ metrics.listErrorsTotal = pass.before.listErrorsTotal + 1
      /\ metrics.sweepsTotal = pass.before.sweepsTotal + 1
      /\ metrics.sweepDuration = pass.before.sweepDuration + 1
      /\ metrics.lastScanned = 0
      /\ metrics.lastCandidates = 0
      /\ metrics.lastExpired = 0
      /\ metrics.lastDeleted = 0
      /\ metrics.deleted = pass.before.deleted
      /\ metrics.dry_run = pass.before.dry_run
      /\ metrics.error = pass.before.error
      /\ pass.deletes = <<>>
      /\ pass.events = <<>>
      /\ pc = "stopped" => ctxDone
      /\ timerAt <= clock + withJitter(s.Interval, s.JitterPercent, 1)
      /\ (pc = "select" /\ clock >= timerAt) => ENABLED (SweepListOk \/ SweepListErr)

\* A pass that failed to list has returned right after a pass that deleted
\* a namespace (whose gauges were not zero), and the scheduler waits for the
\* next timer.
ListErrorAbortsPassWitness ==
    /\ PassReturned
    /\ ~pass.listed
    /\ pass.before.sweepsTotal = 1
    /\ pass.before.deleted >= 1
    /\ pc = "select"
    /\ ~ctxDone

(***************************************************************************)
(* C10: hold is read again in every pass: a pass that is not a dry run     *)
(* and lists, without the hold annotation, an enabled preview-* namespace  *)
(* older than its positive TTL that an earlier pass skipped as held, sends *)
(* a Delete request for it; a pass that lists it with hold="true" sends    *)
(* none.                                                                   *)
(***************************************************************************)
HoldReadEveryPass ==
    \A k \in Processed :
        /\ (pass.nsList[k].Name \in everHeld
              /\ ~s.DryRun
              /\ ItemDue(pass.nsList[k]))
           => /\ pass.status[k] \in {"Deleted", "DeleteFailed"}
              /\ DeleteCount(pass.nsList[k].Name) = 1
        /\ ItemHeld(pass.nsList[k])
           => /\ pass.status[k] \in {"Held", "Excluded"}
              /\ DeleteCount(pass.nsList[k].Name) = 0

\* The pass right after the one that skipped a namespace as held has
\* deleted it.
HoldReadEveryPassWitness ==
    \E k \in Processed :
        /\ pass.nsList[k].Name \in everHeld
        /\ pass.status[k] = "Deleted"
        /\ pass.before.sweepsTotal = 1
        /\ pass.nsList[k].Name \in DOMAIN store
        /\ store[pass.nsList[k].Name].DeletionTimestampSet

(***************************************************************************)
(* C3: with the scheduler left running, dry-run off, and List and Delete   *)
(* not failing for ever, every namespace labelled enabled="true", named    *)
(* preview-*, not held and with a positive effective TTL is in the end,    *)
(* once older than that TTL, deleted by a pass that counts it in deleted   *)
(* and adds one to the deleted outcome counter.                            *)
(***************************************************************************)
Sweepable(n) ==
    /\ n \in DOMAIN store
    /\ ~Unlabelled(store[n])
    /\ ItemNamed(store[n])
    /\ ~ItemHeld(store[n])
    /\ ItemTTL(store[n]) > 0
    /\ ~store[n].DeletionTimestampSet

DeleteCounted(n) ==
    \E k \in Processed :
        /\ pass.nsList[k].Name = n
        /\ pass.status[k] = "Deleted"
        /\ ItemAge(pass.nsList[k]) > ItemTTL(pass.nsList[k])
        /\ DeleteCount(n) = 1
        /\ pass.deleted = Cardinality({ j \in Processed : pass.status[j] = "Deleted" })
        /\ metrics.deleted = pass.before.deleted + pass.deleted

ExpiredEventuallyDeleted ==
    \A n \in Names : Sweepable(n) ~> DeleteCounted(n)

\* A namespace an earlier pass had skipped as held has been deleted and
\* counted, past its TTL, by a pass that began with the deleted outcome
\* counter at 1 already.
ExpiredEventuallyDeletedWitness ==
    /\ ~s.DryRun
    /\ pass.before.deleted = 1
    /\ \E n \in everHeld : DeleteCounted(n)

(***************************************************************************)
(* C11: the passes of one scheduler never overlap: a pass begins only when *)
(* Start is at its select with the timer expired and the pass before it    *)
(* has gone through its whole listing and returned; the return of a pass   *)
(* re-arms the timer for a later instant; while Start waits no pass is     *)
(* left unfinished.                                                        *)
(***************************************************************************)
\* A step that begins a pass: a new pass record that has listed.
PassStarts == pass' # pass /\ pass'.lists = 1 /\ pass'.status = <<>>

\* A step in which SweepOnce returns to Start.
PassReturns ==
    /\ pc' # "loop"
    /\ \/ pc = "loop"
       \/ PassStarts

\* The pass on record has gone through its whole listing.
PassComplete == Len(pass.status) = Len(pass.nsList)

PassesNeverOverlap ==
    /\ [](pc # "loop" => PassComplete)
    /\ [][PassStarts => (pc = "select" /\ clock >= timerAt /\ PassComplete)]_vars
    /\ [][PassReturns =>
            (/\ pc' = IF ctxDone THEN "done" ELSE "select"
             /\ timerAt' > clock
             /\ timerAt' \in { clock + withJitter(s.Interval, s.JitterPercent, sign) :
                                 sign \in {1, -1} })]_vars

\* A second pass is in its loop, past its first namespace, after the first
\* pass had deleted a namespace.
PassesNeverOverlapWitness ==
    /\ pc = "loop"
    /\ pass.before.sweepsTotal = 1
    /\ pass.before.deleted >= 1
    /\ Len(pass.status) >= 1

(***************************************************************************)
(* C12, as stated: once the context has been cancelled while Start waits   *)
(* between passes, no further pass begins, also when the timer expires at  *)
(* the same moment.                                                        *)
(***************************************************************************)
NoPassAfterCancel == ~pass.afterCancel

(***************************************************************************)
(* C12, amended: a cancellation raised while Start waits with the timer    *)
(* not expired is followed by no pass; a pass begins after the             *)
(* cancellation only from a select at which the timer has expired too      *)
(* (both cases ready), and then it is the last one: on its return the      *)
(* cancellation case is taken.  Whenever the context is cancelled and      *)
(* Start is at its select, Start can return, and once the cancellation     *)
(* case is taken or Start has returned no pass begins.                     *)
(***************************************************************************)
CancelEndsScheduler ==
    /\ []((ctxDone /\ pc = "select") => clock >= timerAt)
    /\ [](pc \in {"done", "stopped"} => ctxDone)
    /\ []((ctxDone /\ pc \in {"select", "done"}) => ENABLED Stop)
    /\ [][(ctxDone' /\ ~ctxDone /\ pc = "select" /\ clock < timerAt)
            => pc' = "done"]_vars
    /\ [][(pc \in {"done", "stopped"})
            => (pc' \in {"done", "stopped"} /\ pass' = pass)]_vars
    /\ [][(ctxDone /\ PassStarts) => (pc = "select" /\ clock >= timerAt)]_vars
    /\ [][(ctxDone /\ PassReturns) => pc' = "done"]_vars

\* Start has returned after a pass that began with the context cancelled
\* already had deleted a namespace.
CancelEndsSchedulerWitness ==
    /\ pc = "stopped"
    /\ pass.afterCancel
    /\ pass.deleted >= 1

(***************************************************************************)
(* C13: the sweeper always declares that it needs leader election, so that *)
(* among the replicas under the manager's election one scheduler at most   *)
(* is running at any instant, and a replica that does not hold the lease   *)
(* makes no List and no Delete call.                                       *)
(***************************************************************************)
SelfRunning == pc \in {"select", "loop", "done"}

\* A step in which this replica's sweeper calls List or Delete.
ListOrDelete == PassStarts \/ Len(pass'.deletes) > Len(pass.deletes)

DueNames[k \in 0..Len(pass.nsList)] ==
    IF k = 0 THEN <<>>
    ELSE IF ItemDue(pass.nsList[k])
         THEN Append(DueNames[k - 1], pass.nsList[k].Name)
         ELSE DueNames[k - 1]

\* A step in which a Delete request has failed.
DeleteFails ==
    /\ Len(pass'.status) > Len(pass.status)
    /\ pass'.status[Len(pass'.status)] = "DeleteFailed"

FailedDeleteKeepsPass ==
    /\ [](~s.DryRun => pass.deletes = DueNames[Len(pass.status)])
    /\ []((pass.listed /\ pc # "loop") => PassComplete)
    /\ [][DeleteFails => (/\ pc' = "loop"
                          /\ pass'.i = pass.i + 1
                          /\ pass'.nsList = pass.nsList
                          /\ timerAt' = timerAt)]_vars

\* A pass has returned in which a Delete failed and the Delete of a
\* namespace listed after it succeeded.
FailedDeleteKeepsPassWitness ==
    /\ PassReturned
    /\ \E j, k \in Processed :
         /\ j < k
         /\ pass.status[j] = "DeleteFailed"
         /\ pass.status[k] = "Deleted"

(***************************************************************************)
(* C15: a namespace whose Delete fails is counted in expired and not in    *)
(* deleted, adds one to the error outcome counter and nothing to the       *)
(* deleted one, gets no event and no second Delete request in the pass,    *)
(* and stays in the store as it was; a later pass that lists it still due  *)
(* sends a Delete request for it again.                                    *)
(***************************************************************************)
\* The positions of the pass that ended in a given branch.
Ended(branch) == { k \in Processed : pass.status[k] = branch }

FailedDeleteState ==
    ~s.DryRun =>
      /\ pass.expired = Cardinality(Ended("Deleted")) + Cardinality(Ended("DeleteFailed"))
      /\ pass.deleted = Cardinality(Ended("Deleted"))
      /\ metrics.error = pass.before.error + Cardinality(Ended("DeleteFailed"))
      /\ metrics.deleted = pass.before.deleted + Cardinality(Ended("Deleted"))
      /\ \A k \in Ended("DeleteFailed") :
           /\ EventCount(pass.nsList[k].Name) = 0
           /\ DeleteCount(pass.nsList[k].Name) = 1
      /\ \A k \in Processed :
           (pass.nsList[k].Name \in pass.failedBefore /\ ItemDue(pass.nsList[k]))
           => /\ pass.status[k] \in {"Deleted", "DeleteFailed"}
              /\ DeleteCount(pass.nsList[k].Name) = 1

FailedDeleteRetriedNextPass ==
    /\ []FailedDeleteState
    /\ [][DeleteFails => (store' = store /\ pass'.events = pass.events)]_vars

\* A namespace whose Delete failed in the pass before has been deleted by
\* this pass, with a Recorder set.
FailedDeleteRetriedNextPassWitness ==
    /\ s.Recorder
    /\ \E k \in Processed :
         /\ pass.nsList[k].Name \in pass.failedBefore
         /\ pass.status[k] = "Deleted"
         /\ pass.before.error = 1
         /\ pass.before.deleted = 0

(***************************************************************************)
(* C16: the deleted count of a pass, published to the last_sweep_deleted   *)
(* gauge when the pass returns, is the number of namespaces whose Delete   *)
(* succeeded in the pass.  In a dry-run pass it is 0: the namespaces that  *)
(* would have been removed are counted in expired and in the dry_run       *)
(* outcome counter only.                                                   *)
(***************************************************************************)
\* The positions of the pass whose namespace is due.
Due == { k \in Processed : ItemDue(pass.nsList[k]) }

\* C16 as stated: in dry-run the deleted count is the number of due
\* namespaces.
DeletedCountsWouldBeRemoved ==
    /\ pass.deleted =
         IF s.DryRun THEN Cardinality(Due) ELSE Cardinality(Ended("Deleted"))
    /\ PassReturned => metrics.lastDeleted = pass.deleted

DeletedCountsRemovedOnly ==
    /\ pass.deleted = Cardinality(Ended("Deleted"))
    /\ PassReturned => metrics.lastDeleted = pass.deleted
    /\ s.DryRun =>
         /\ pass.deleted = 0
         /\ pass.expired = Cardinality(Due)
         /\ Ended("DryRunSkipped") = Due
         /\ PassReturned => (metrics.lastDeleted = 0
                              /\ metrics.lastExpired = IF pass.listed THEN Cardinality(Due) ELSE 0)

\* A dry-run pass has returned that went through two due namespaces.
DeletedCountsRemovedOnlyWitness ==
    /\ s.DryRun
    /\ PassReturned
    /\ Cardinality(Due) = 2
    /\ metrics.lastExpired = 2
    /\ metrics.lastDeleted = 0

PassCountedOnce ==
    /\ [](PassReturned => (/\ metrics.sweepsTotal = pass.before.sweepsTotal + 1
                            /\ metrics.sweepDuration = pass.before.sweepDuration + 1))
    /\ [](pc = "loop" => (/\ metrics.sweepsTotal = pass.before.sweepsTotal
                           /\ metrics.sweepDuration = pass.before.sweepDuration))
    /\ [](pc # "loop" => metrics.listErrorsTotal <= metrics.sweepsTotal)
    /\ [][/\ metrics'.sweepsTotal >= metrics.sweepsTotal
           /\ metrics'.sweepDuration >= metrics.sweepDuration
           /\ metrics'.listErrorsTotal >= metrics.listErrorsTotal]_vars
    /\ [][PassReturns <=> (/\ metrics'.sweepsTotal = metrics.sweepsTotal + 1
                            /\ metrics'.sweepDuration = metrics.sweepDuration + 1)]_vars
    /\ [][metrics'.listErrorsTotal # metrics.listErrorsTotal
            => (/\ metrics'.listErrorsTotal = metrics.listErrorsTotal + 1
                /\ PassStarts /\ PassReturns /\ ~pass'.listed)]_vars

\* Two passes have returned and the List of both failed.
PassCountedOnceWitness ==
    /\ PassReturned
    /\ metrics.sweepsTotal = 2
    /\ metrics.sweepDuration = 2
    /\ metrics.listErrorsTotal = 2

(***************************************************************************)
(* C19: a TTL annotation that parses, once trimmed, as a duration gives    *)
(* that duration with the source "annotation"; one that parses only as an  *)
(* integer n >= 0 gives n hours with the source "annotation"; the default  *)
(* TTL is not used for either.                                             *)
(***************************************************************************)
\* The TTL annotation of the k-th listed namespace, trimmed.
TrimmedTTL(k) == TrimSpace(pass.nsList[k].Annotations[AnnotationTTL])

\* The positions the loop has called resolveTTL for, with the annotation set.
Annotated ==
    { k \in Processed : /\ ItemCandidate(pass.nsList[k])
                         /\ AnnotationTTL \in DOMAIN pass.nsList[k].Annotations }

BranchUnder(ns, ttl) ==
    IF ItemHeld(ns) THEN {"Held"}
    ELSE IF ttl <= 0 THEN {"TTLDisabled"}
    ELSE IF ItemAge(ns) <= ttl THEN {"NotYetExpired"}
    ELSE ExpiredStatus

\* The positions the loop has called resolveTTL for with no usable TTL
\* annotation.
Defaulted ==
    { k \in Processed :
        /\ ItemCandidate(pass.nsList[k])
        /\ \/ AnnotationTTL \notin DOMAIN pass.nsList[k].Annotations
           \/ pass.nsList[k].Annotations[AnnotationTTL] \in Blank \cup Unparsable
           \/ TrimmedTTL(k) = ""
           \/ (~ParseDuration(TrimmedTTL(k)).ok /\ ~Atoi(TrimmedTTL(k)).ok) }

DefaultTTLUsed ==
    /\ Len(pass.resolved) = Len(pass.status)
    /\ \A k \in Defaulted :
         /\ pass.resolved[k] = [ttl |-> s.TTL, src |-> "default"]
         /\ pass.status[k] \in BranchUnder(pass.nsList[k], s.TTL)

\* A namespace whose annotation is "4h5" has been deleted under the default
\* TTL of one second.
DefaultTTLUsedWitness ==
    \E k \in Defaulted :
        /\ pass.nsList[k].Annotations = (AnnotationTTL :> "4h5")
        /\ s.TTL = Second
        /\ pass.status[k] = "Deleted"
        /\ pass.nsList[k].Name \in DOMAIN store
        /\ store[pass.nsList[k].Name].DeletionTimestampSet

(***************************************************************************)
(* C21: a TTL annotation that is a bare negative integer n is accepted by  *)
(* the integer form: resolveTTL returns n hours with the source            *)
(* "annotation", not the default, and the namespace, its TTL not being     *)
(* positive, is never counted as expired and gets no Delete request.       *)
(***************************************************************************)
\* The positions the loop has called resolveTTL for with a bare negative
\* integer as the annotation.
NegativeAnnotated ==
    { k \in Annotated :
        pass.nsList[k].Annotations[AnnotationTTL] \in DOMAIN NegativeHoursOf }

Abs(x) == IF x < 0 THEN 0 - x ELSE x

\* d is within pct hundredths of base, halved, of base.
WithinJitter(d, base, pct) ==
    IF pct <= 0 THEN d = base
    ELSE 200 * Abs(d - base) <= base * pct

\* A step of Start that arms the timer for the first time.
FirstArm == pc = "init" /\ pc' # "init"

JitterWithinBounds ==
    /\ [][FirstArm => WithinJitter(timerAt' - clock, s'.Interval, FirstJitterPercent)]_vars
    /\ [][PassReturns => WithinJitter(timerAt' - clock, s.Interval, s.JitterPercent)]_vars
    /\ [][(FirstArm \/ PassReturns) => clock' = clock]_vars

\* The timer has been re-armed 7 ms with a jitter of 0.33 less a
\* millisecond: delta is 2 ms, half of it 1 ms.
JitterWithinBoundsWitness ==
    /\ PassReturned
    /\ pc = "select"
    /\ s.Interval = 7 * Millisecond
    /\ s.JitterPercent = 33
    /\ timerAt = pass.now + 6 * Millisecond
    /\ clock = pass.now

(***************************************************************************)
(* C23: no pass begins before Start has armed the first timer and that     *)
(* timer has expired; the first delay is the interval plus or minus a      *)
(* twentieth of it (jitter 0.1), whatever the configured jitter; every     *)
(* later delay is the interval plus or minus half the configured jitter's  *)
(* share of it, and the interval itself when that jitter is not positive.  *)
(***************************************************************************)
\* The two delays a base gives with a jitter of pct hundredths.
Delays(base, pct) ==
    IF pct <= 0 THEN {base}
    ELSE { base - ((base * pct) \div 100) \div 2,
           base + ((base * pct) \div 100) \div 2 }

FirstDelayFixedJitter ==
    /\ [](pc \in {"main", "init"} => pass.lists = 0)
    /\ [][FirstArm => timerAt' - clock \in { s'.Interval - s'.Interval \div 20,
                                              s'.Interval + s'.Interval \div 20 }]_vars
    /\ [][PassStarts => (pc = "select" /\ clock >= timerAt)]_vars
    /\ [][PassReturns => timerAt' - clock \in Delays(s.Interval, s.JitterPercent)]_vars

\* With no configured jitter and an interval of one second, the first pass
\* began at one second (the first delay was 950 ms) and the timer is
\* re-armed at two seconds.
FirstDelayFixedJitterWitness ==
    /\ PassReturned
    /\ pc = "select"
    /\ s.JitterPercent = 0
    /\ s.Interval = Second
    /\ pass.before.sweepsTotal = 0
    /\ pass.now = Second
    /\ timerAt = 2 * Second

(***************************************************************************)
(* C24: main replaces a TTL that is not positive by 72 h and an interval   *)
(* that is not positive by 24 h before it constructs the sweeper: the      *)
(* sweeper's default TTL and interval are positive, every TTL a pass takes *)
(* from the default is that positive TTL, and every delay of the timer is  *)
(* computed from that interval.                                            *)
(***************************************************************************)
\* The environment values of the model that are durations.
EnvDurationOf == ("-1s" :> 0 - Second)

\* What the flags and the environment ask for.
Asked(envVal, flagVal) ==
    IF envVal \in DOMAIN EnvDurationOf THEN EnvDurationOf[envVal] ELSE flagVal

\* The step of main that constructs the sweeper.
Constructs == pc = "main" /\ pc' # "main"

Listed == { pass.nsList[k] : k \in 1..Len(pass.nsList) }

\* The names Delete was called with in the pass.
DeleteNames == { pass.deletes[j] : j \in 1..Len(pass.deletes) }

OrderIndependentState ==
    /\ \A k \in Processed :
         pass.status[k] # "Excluded" <=> ItemCandidate(pass.nsList[k])
    /\ \A ns \in Listed : ~Unlabelled(ns)
    /\ PassReturned =>
         /\ pass.scanned = Cardinality(Listed)
         /\ pass.candidates = Cardinality({ ns \in Listed : ItemCandidate(ns) })
         /\ pass.expired = Cardinality({ ns \in Listed : ItemDue(ns) })
         /\ DeleteNames =
              IF s.DryRun THEN {} ELSE { ns.Name : ns \in { d \in Listed : ItemDue(d) } }
         /\ Len(pass.deletes) = Cardinality(DeleteNames)
         /\ pass.deleted =
              Cardinality(DeleteNames) - (metrics.error - pass.before.error)

Written(ns) ==
    [ Name |-> ns.Name, Labels |-> ns.Labels,
      Annotations |-> ns.Annotations, CreationTimestamp |-> ns.CreationTimestamp ]

\* A step in which the sweeper calls Delete.
DeleteRequest == Len(pass'.deletes) > Len(pass.deletes)

OnlyDeleteChangesStore ==
    /\ [][SweeperStep =>
            (/\ DOMAIN store' = DOMAIN store
             /\ \A n \in DOMAIN store : Written(store'[n]) = Written(store[n]))]_vars
    /\ [][(SweeperStep /\ ~DeleteRequest) => store' = store]_vars
    /\ [][(SweeperStep /\ store' # store) =>
            (/\ DeleteRequest
             /\ ~s.DryRun
             /\ pass.listed
             /\ store' = StoreDelete(store, pass'.deletes[Len(pass'.deletes)]))]_vars

\* A namespace with a TTL annotation has been deleted and is in the store,
\* marked for deletion, with the labels, annotations and creation time it
\* was listed with.
OnlyDeleteChangesStoreWitness ==
    \E k \in Processed :
        /\ pass.status[k] = "Deleted"
        /\ pass.nsList[k].Annotations # EmptyMap
        /\ pass.nsList[k].Name \in DOMAIN store
        /\ store[pass.nsList[k].Name].DeletionTimestampSet
        /\ Written(store[pass.nsList[k].Name]) = Written(pass.nsList[k])

(***************************************************************************)
(* C27: a namespace named preview-* that does not carry the label          *)
(* enabled="true" is never returned by the sweeper's List, gets no Delete  *)
(* request and is never marked for deletion, however old it is: no step    *)
(* takes it out of the store or sets its deletion timestamp.               *)
(***************************************************************************)
\* A namespace of the store named preview-*, without the label, not held,
\* with a positive TTL and not in deletion.
PreviewByNameOnly(n) ==
    /\ n \in DOMAIN store
    /\ Unlabelled(store[n])
    /\ ItemNamed(store[n])
    /\ ~ItemHeld(store[n])
    /\ ItemTTL(store[n]) > 0
    /\ ~store[n].DeletionTimestampSet

\* The namespace is gone or marked for deletion.
GoneOrDeleting(n) == n \notin DOMAIN store \/ store[n].DeletionTimestampSet

Terminal ==
    {"Excluded", "Held", "TTLDisabled", "NotYetExpired",
     "DryRunSkipped", "Deleted", "DeleteFailed"}

\* The context is cancelled by this step.
Cancelled == ctxDone' /\ ~ctxDone

CancelDuringPass ==
    /\ [][(Cancelled /\ pc = "loop") => (pc' = "loop" /\ pass' = pass)]_vars
    /\ [][(ctxDone /\ pc = "loop") =>
            (\/ pc' = "loop" /\ Len(pass'.status) >= Len(pass.status)
                              /\ pass'.nsList = pass.nsList
             \/ pc' = "done" /\ pass' = pass /\ PassComplete)]_vars
    /\ []((ctxDone /\ pc = "loop") => ENABLED (SweepSkip \/ SweepDryRun
                                               \/ SweepDeleteOk \/ SweepDeleteErr
                                               \/ SweepFinish))
    /\ [](\A k \in Processed : pass.status[k] \in Terminal)
    /\ [][(pc = "done") => (pc' \in {"done", "stopped"} /\ ~PassStarts)]_vars

\* The context was cancelled after the pass had listed three namespaces,
\* and the pass has been through all of them, deleting one, and has not
\* returned yet.
CancelDuringPassWitness ==
    /\ pc = "loop"
    /\ ctxDone
    /\ ~pass.afterCancel
    /\ Len(pass.nsList) = 3
    /\ pass.i > Len(pass.nsList)
    /\ PassComplete
    /\ \E k \in Processed : pass.status[k] = "Deleted"

(***************************************************************************)
(* C29: every listed namespace ends a pass in one branch exactly, one step *)
(* of the loop each; a step that ends in an expired branch adds one to one *)
(* outcome counter (dry_run, deleted or error) and no other step adds to   *)
(* them, so that what a pass adds to the three is its expired count.       *)
(***************************************************************************)
\* The sum of the three outcome counters.
Outcomes(m) == m.dry_run + m.deleted + m.error

\* A step of the loop: one more listed namespace has its branch.
LoopStep ==
    /\ Len(pass'.status) = Len(pass.status) + 1
    /\ SubSeq(pass'.status, 1, Len(pass.status)) = pass.status
    /\ pass'.nsList = pass.nsList

\* The branch the loop step ends in.
NewStatus == pass'.status[Len(pass'.status)]

OneOutcomeEach ==
    /\ [](Len(pass.status) <= Len(pass.nsList))
    /\ [](\A k \in Processed : pass.status[k] \in Terminal)
    /\ []((PassReturned /\ pass.listed) => Len(pass.status) = Len(pass.nsList))
    /\ [](/\ metrics.dry_run - pass.before.dry_run = Cardinality(Ended("DryRunSkipped"))
          /\ metrics.deleted - pass.before.deleted = Cardinality(Ended("Deleted"))
          /\ metrics.error - pass.before.error = Cardinality(Ended("DeleteFailed"))
          /\ Outcomes(metrics) - Outcomes(pass.before) = pass.expired)
    /\ [][(pass'.status # pass.status) => (LoopStep \/ PassStarts)]_vars
    /\ [][LoopStep =>
            /\ NewStatus = "DryRunSkipped" =>
                  metrics' = [metrics EXCEPT !.dry_run = @ + 1]
            /\ NewStatus = "Deleted" =>
                  metrics' = [metrics EXCEPT !.deleted = @ + 1]
            /\ NewStatus = "DeleteFailed" =>
                  metrics' = [metrics EXCEPT !.error = @ + 1]
            /\ NewStatus \notin ExpiredStatus => metrics' = metrics]_vars
    /\ [][(Outcomes(metrics') # Outcomes(metrics)) => LoopStep]_vars

\* The second pass has returned with two expired namespaces, one deleted
\* and one whose Delete failed, and a listed namespace that was excluded.
OneOutcomeEachWitness ==
    /\ PassReturned
    /\ pass.before.sweepsTotal = 1
    /\ pass.expired = 2
    /\ metrics.deleted - pass.before.deleted = 1
    /\ metrics.error - pass.before.error = 1
    /\ Ended("Excluded") # {}

(***************************************************************************)
(* C30: the counts of a pass are ordered, 0 <= deleted <= expired <=       *)
(* candidates <= scanned, and so are the gauges once the pass has          *)
(* returned; scanned is the number of namespaces the label-selected List   *)
(* returned; after a List error the four are 0.                            *)
(***************************************************************************)
\* Four counts in order.
Ordered(deleted, expired, candidates, scanned) ==
    /\ 0 <= deleted
    /\ deleted <= expired
    /\ expired <= candidates
    /\ candidates <= scanned

DeletedAtMostOnce ==
    /\ CountsFollowStatus
    /\ pass.deleted = Cardinality(Ended("Deleted"))
    /\ \A k \in Processed :
         (/\ pass.nsList[k].Name \in pass.deletedBefore
          /\ pass.nsList[k].DeletionTimestampSet)
         => /\ pass.status[k] = "Excluded"
            /\ DeleteCount(pass.nsList[k].Name) = 0
    /\ \A k \in Ended("Deleted") : pass.nsList[k].Name \notin pass.deletedBefore
    /\ metrics.deleted = Cardinality(DeletedSoFar)

\* A later pass has been through a namespace that an earlier pass deleted,
\* still listed, in deletion and otherwise due, and has returned.
DeletedAtMostOnceWitness ==
    /\ PassReturned
    /\ ~s.DryRun
    /\ metrics.deleted = 1
    /\ pass.before.deleted = 1
    /\ \E k \in Processed :
         /\ pass.nsList[k].Name \in pass.deletedBefore
         /\ pass.nsList[k].DeletionTimestampSet
         /\ ItemNamed(pass.nsList[k])
         /\ ~ItemHeld(pass.nsList[k])
         /\ ItemTTL(pass.nsList[k]) > 0
         /\ ItemAge(pass.nsList[k]) > ItemTTL(pass.nsList[k])

(***************************************************************************)
(* C32: the four gauges are not published together.  last_scanned is set   *)
(* as soon as List returns; last_candidates, last_expired and last_deleted *)
(* keep the values of the pass before until the pass under way returns.    *)
(* A scrape in the middle of a pass reads gauges of two passes, which need *)
(* not be ordered; with no pass under way the four are those of one pass   *)
(* and last_deleted <= last_expired <= last_candidates <= last_scanned.    *)
(***************************************************************************)
\* The gauges set when the pass returns.
EndGauges(m) == <<m.lastCandidates, m.lastExpired, m.lastDeleted>>

\* What a scrape reads is ordered.
ScrapeOrdered ==
    Ordered(metrics.lastDeleted, metrics.lastExpired,
            metrics.lastCandidates, metrics.lastScanned)

\* The claim as stated: every scrape, at any instant, reads ordered gauges.
ScrapeAlwaysOrdered == ScrapeOrdered

GaugesSetInTwoSteps ==
    /\ [](pc = "loop" => metrics.lastScanned = Len(pass.nsList))
    /\ [](pc # "loop" => ScrapeOrdered)
    /\ [][(pc' = "loop") => (EndGauges(metrics') = EndGauges(metrics))]_vars
    /\ [][(pc = "loop" /\ pc' # "loop") =>
            (/\ EndGauges(metrics') = <<pass.candidates, pass.expired, pass.deleted>>
             /\ metrics'.lastScanned = metrics.lastScanned)]_vars

\* A scrape in the middle of a pass: the pass before counted a candidate,
\* the pass under way has listed nothing.
GaugesSetInTwoStepsWitness ==
    /\ pc = "loop"
    /\ pass.before.sweepsTotal = 1
    /\ metrics.lastScanned = 0
    /\ metrics.lastCandidates = 1
    /\ metrics.lastExpired = 1
    /\ metrics.lastDeleted = 1

(***************************************************************************)
(* C33: a bare non-negative integer n in the TTL annotation gives a TTL of *)
(* n hours: for n > 0 it is positive and no shorter than the TTL of a      *)
(* smaller number, so a namespace annotated with a large number does not   *)
(* expire before one annotated with a small number.  Line 244 does not     *)
(* keep to this: n hours fit in a Duration up to n = 2562047 and the       *)
(* product n * time.Hour wraps around beyond that.                         *)
(***************************************************************************)
\* The positions the loop has called resolveTTL for with a whole number of
\* hours as the annotation, and that number.
WholeAnnotated ==
    { k \in Annotated :
        pass.nsList[k].Annotations[AnnotationTTL] \in DOMAIN WholeHoursOf }

WholeHours(k) == WholeHoursOf[pass.nsList[k].Annotations[AnnotationTTL]]

\* C33: the TTL of n > 0 is positive and no shorter than that of a smaller
\* number, so the namespace does not expire within its first hour.
HoursNeverWrap ==
    \A k \in WholeAnnotated :
        /\ pass.resolved[k].src = "annotation"
        /\ pass.resolved[k].ttl >= Hour
        /\ ItemAge(pass.nsList[k]) <= Hour => pass.status[k] \notin ExpiredStatus

\* What line 244 gives: n hours up to 2562047; a negative TTL, and a
\* namespace that never expires, for n from 2562048 to 5124095; 25 minutes
\* 26.29 seconds for n = 5124096.
HoursWrapAround ==
    \A k \in WholeAnnotated :
        /\ pass.resolved[k].src = "annotation"
        /\ WholeHours(k) <= 500 => pass.resolved[k].ttl = WholeHours(k) * Hour
        /\ (WholeHours(k) > 500 /\ WholeHours(k) <= 2562047) =>
             /\ pass.resolved[k].ttl >= FarAway
             /\ pass.status[k] \in {"Held", "NotYetExpired"}
        /\ (WholeHours(k) >= 2562048 /\ WholeHours(k) <= 5124095) =>
             /\ pass.resolved[k].ttl < 0
             /\ pass.status[k] \in {"Held", "TTLDisabled"}
        /\ WholeHours(k) = 5124096 =>
             /\ pass.resolved[k].ttl = 25 * Minute + 26 * Second + 290 * Millisecond
             /\ (ItemAge(pass.nsList[k]) >= 30 * Minute /\ ~ItemHeld(pass.nsList[k]))
                => pass.status[k] \in ExpiredStatus

\* A pass has deleted a namespace annotated "5124096" and has left one of
\* the same age annotated "1", both half an hour old.
HoursWrapAroundWitness ==
    /\ PassReturned
    /\ ~s.DryRun
    /\ \E k, j \in WholeAnnotated :
         /\ WholeHours(k) = 5124096
         /\ WholeHours(j) = 1
         /\ pass.nsList[k].CreationTimestamp = pass.nsList[j].CreationTimestamp
         /\ ItemAge(pass.nsList[k]) < Hour
         /\ pass.status[k] = "Deleted"
         /\ pass.status[j] = "NotYetExpired"

(***************************************************************************)
(* C34: only the value "true" of the hold annotation holds a namespace.  A *)
(* candidate whose hold annotation is absent or has another value ("True", *)
(* " true", "false", the empty string, ...) is not held: once its age is   *)
(* above its positive effective TTL, a pass that is not a dry run sends    *)
(* one Delete request for it, and the namespace is marked for deletion     *)
(* when the request succeeds; a dry-run pass counts it in dry_run.         *)
(***************************************************************************)
\* The k-th listed namespace has no hold annotation, or one with a value
\* other than "true".
NotOnHold(k) ==
    \/ AnnotationHold \notin DOMAIN pass.nsList[k].Annotations
    \/ pass.nsList[k].Annotations[AnnotationHold] \in OtherHoldValues

\* The k-th listed namespace is a candidate older than its positive TTL.
PastTTL(k) ==
    /\ ItemCandidate(pass.nsList[k])
    /\ pass.resolved[k].ttl > 0
    /\ ItemAge(pass.nsList[k]) > pass.resolved[k].ttl

OnlyExactTrueHolds ==
    /\ [](\A k \in Processed :
            /\ pass.status[k] = "Held" =>
                 /\ AnnotationHold \in DOMAIN pass.nsList[k].Annotations
                 /\ pass.nsList[k].Annotations[AnnotationHold] = "true"
            /\ (NotOnHold(k) /\ PastTTL(k)) =>
                 /\ pass.status[k] \in ExpiredStatus
                 /\ pass.status[k] = "DryRunSkipped" <=> s.DryRun
                 /\ DeleteCount(pass.nsList[k].Name) = IF s.DryRun THEN 0 ELSE 1)
    /\ [][(InLoop /\ pass'.status = Append(pass.status, "Deleted")) =>
            (/\ NotOnHold(pass.i)
             /\ store'[Current.Name].DeletionTimestampSet
             /\ metrics'.deleted = metrics.deleted + 1)]_vars

\* A pass that is not a dry run has deleted a namespace annotated
\* hold = "True", and one annotated hold = " true".
OnlyExactTrueHoldsWitness ==
    /\ ~s.DryRun
    /\ \E k \in Processed :
         /\ AnnotationHold \in DOMAIN pass.nsList[k].Annotations
         /\ pass.nsList[k].Annotations[AnnotationHold] \in {"True", " true"}
         /\ pass.status[k] = "Deleted"
         /\ "preview-a" \in DOMAIN store
         /\ store["preview-a"].DeletionTimestampSet

====
